---- MODULE Spec2Model ----
(***************************************************************************)
(* Machine setup of the Kendryte K230 board (hw/riscv/k230.c): the         *)
(* address-space catalog, SoC instantiation and interrupt wiring, the       *)
(* synthesis of the device tree, the placement of firmware, kernel,         *)
(* document and reset stub, and the execution of the reset stub by the      *)
(* harts once setup has completed.                                          *)
(*                                                                          *)
(* 64-bit quantities (hwaddr, uint64_t, target_ulong) are kept at their     *)
(* width as four 16-bit limbs, most significant first; 32-bit quantities    *)
(* (uint32_t, device-tree cells, instruction words) as two limbs.           *)
(***************************************************************************)
EXTENDS Integers, Sequences, FiniteSets, TLC

(* ------------------------------------------------------------------ *)
(* Fixed-width arithmetic                                               *)
(* ------------------------------------------------------------------ *)

LIMB == 2 ^ 16

Zero64 == <<0, 0, 0, 0>>

\* (uint32_t)v : the low 32 bits of a 64-bit value
Lo32(v) == <<v[3], v[4]>>

\* v >> 32 on a 64-bit value
Shr32(v) == <<0, 0, v[1], v[2]>>

\* zero extension of a 32-bit value to 64 bits
ZExt32(c) == <<0, 0, c[1], c[2]>>

\* sign extension of a 32-bit value to 64 bits (the *W instructions)
SExt32(c) ==
    IF c[1] >= 32768 THEN <<LIMB - 1, LIMB - 1, c[1], c[2]>>
                     ELSE <<0, 0, c[1], c[2]>>

\* sign extension of a k-bit immediate (k <= 21) to 64 bits
SExtImm(imm, k) ==
    IF imm >= 2 ^ (k - 1)
    THEN LET m == imm + (2 ^ 30 - 2 ^ k)  \* ones in bits k..29
         IN  <<LIMB - 1, LIMB - 1, (LIMB - 16384) + (m \div LIMB), m % LIMB>>
    ELSE <<0, 0, imm \div LIMB, imm % LIMB>>

\* a + b modulo 2^64
Add64(a, b) ==
    LET s4 == a[4] + b[4]
        s3 == a[3] + b[3] + (s4 \div LIMB)
        s2 == a[2] + b[2] + (s3 \div LIMB)
        s1 == a[1] + b[1] + (s2 \div LIMB)
    IN  <<s1 % LIMB, s2 % LIMB, s3 % LIMB, s4 % LIMB>>

\* a < b, unsigned
Lt64(a, b) ==
    \/ a[1] < b[1]
    \/ a[1] = b[1] /\ a[2] < b[2]
    \/ a[1] = b[1] /\ a[2] = b[2] /\ a[3] < b[3]
    \/ a[1] = b[1] /\ a[2] = b[2] /\ a[3] = b[3] /\ a[4] < b[4]

Le64(a, b) == a = b \/ Lt64(a, b)

\* v << n modulo 2^64, 0 <= n < 64: by n % 16 bits within and across the
\* limbs, then by n \div 16 whole limbs
Shl64(v, n) ==
    LET q == n \div 16
        m == 2 ^ (n % 16)
        s == [ i \in 1 .. 4 |->
                 ((v[i] * m) % LIMB) + (IF i < 4 THEN (v[i + 1] * m) \div LIMB ELSE 0) ]
    IN  << IF 1 + q <= 4 THEN s[1 + q] ELSE 0,
           IF 2 + q <= 4 THEN s[2 + q] ELSE 0,
           IF 3 + q <= 4 THEN s[3 + q] ELSE 0,
           IF 4 + q <= 4 THEN s[4 + q] ELSE 0 >>

\* a small non-negative C int as a 32-bit cell / a 64-bit value
Cell(n) == <<n \div LIMB, n % LIMB>>
Val64(n) == <<0, 0, n \div LIMB, n % LIMB>>

(* ------------------------------------------------------------------ *)
(* Address-space catalog                                                *)
(* ------------------------------------------------------------------ *)

\* every size taken twice
MemMapEntry_DoubleSize(bhi, blo, shi, slo) ==
    [base |-> <<0, 0, bhi, blo>>,
     size |-> <<0, 0, 2 * shi + ((2 * slo) \div LIMB), (2 * slo) % LIMB>>]

MemMapEntry(bhi, blo, shi, slo) ==
    [base |-> <<0, 0, bhi, blo>>, size |-> <<0, 0, shi, slo>>]

k230_memmap ==
    [ K230_DEV_DDRC         |-> MemMapEntry(\h0000, \h0000, \h8000, \h0000),
      K230_DEV_KPU_L2_CACHE |-> MemMapEntry(\h8000, \h0000, \h0020, \h0000),
      K230_DEV_SRAM         |-> MemMapEntry(\h8020, \h0000, \h0020, \h0000),
      K230_DEV_KPU_CFG      |-> MemMapEntry(\h8040, \h0000, \h0000, \h0800),
      K230_DEV_FFT          |-> MemMapEntry(\h8040, \h0800, \h0000, \h0400),
      K230_DEV_AI_2D_ENGINE |-> MemMapEntry(\h8040, \h0C00, \h0000, \h0800),
      K230_DEV_GSDMA        |-> MemMapEntry(\h8080, \h0000, \h0000, \h4000),
      K230_DEV_DMA          |-> MemMapEntry(\h8080, \h4000, \h0000, \h4000),
      K230_DEV_DECOMP_GZIP  |-> MemMapEntry(\h8080, \h8000, \h0000, \h4000),
      K230_DEV_NON_AI_2D    |-> MemMapEntry(\h8080, \hC000, \h0000, \h4000),
      K230_DEV_ISP          |-> MemMapEntry(\h9000, \h0000, \h0000, \h8000),
      K230_DEV_DEWARP       |-> MemMapEntry(\h9000, \h8000, \h0000, \h1000),
      K230_DEV_RX_CSI       |-> MemMapEntry(\h9000, \h9000, \h0000, \h2000),
      K230_DEV_H264         |-> MemMapEntry(\h9040, \h0000, \h0001, \h0000),
      K230_DEV_2P5D         |-> MemMapEntry(\h9080, \h0000, \h0004, \h0000),
      K230_DEV_VO           |-> MemMapEntry(\h9084, \h0000, \h0001, \h0000),
      K230_DEV_VO_CFG       |-> MemMapEntry(\h9085, \h0000, \h0000, \h1000),
      K230_DEV_3D_ENGINE    |-> MemMapEntry(\h90A0, \h0000, \h0000, \h0800),
      K230_DEV_PMU          |-> MemMapEntry(\h9100, \h0000, \h0000, \h0C00),
      K230_DEV_RTC          |-> MemMapEntry(\h9100, \h0C00, \h0000, \h0400),
      K230_DEV_CMU          |-> MemMapEntry(\h9110, \h0000, \h0000, \h1000),
      K230_DEV_RMU          |-> MemMapEntry(\h9110, \h1000, \h0000, \h1000),
      K230_DEV_BOOT         |-> MemMapEntry(\h9110, \h2000, \h0000, \h1000),
      K230_DEV_PWR          |-> MemMapEntry(\h9110, \h3000, \h0000, \h1000),
      K230_DEV_MAILBOX      |-> MemMapEntry(\h9110, \h4000, \h0000, \h1000),
      K230_DEV_IOMUX        |-> MemMapEntry(\h9110, \h5000, \h0000, \h0800),
      K230_DEV_TIMER        |-> MemMapEntry(\h9110, \h5800, \h0000, \h0800),
      K230_DEV_WDT0         |-> MemMapEntry(\h9110, \h6000, \h0000, \h0800),
      K230_DEV_WDT1         |-> MemMapEntry(\h9110, \h6800, \h0000, \h0800),
      K230_DEV_TS           |-> MemMapEntry(\h9110, \h7000, \h0000, \h0800),
      K230_DEV_HDI          |-> MemMapEntry(\h9110, \h7800, \h0000, \h0800),
      K230_DEV_STC          |-> MemMapEntry(\h9110, \h8000, \h0000, \h0800),
      K230_DEV_BOOTROM      |-> MemMapEntry(\h9120, \h0000, \h0001, \h0000),
      K230_DEV_SECURITY     |-> MemMapEntry(\h9121, \h0000, \h0000, \h8000),
      K230_DEV_UART0        |-> MemMapEntry(\h9140, \h0000, \h0000, \h1000),
      K230_DEV_UART1        |-> MemMapEntry(\h9140, \h1000, \h0000, \h1000),
      K230_DEV_UART2        |-> MemMapEntry(\h9140, \h2000, \h0000, \h1000),
      K230_DEV_UART3        |-> MemMapEntry(\h9140, \h3000, \h0000, \h1000),
      K230_DEV_UART4        |-> MemMapEntry(\h9140, \h4000, \h0000, \h1000),
      K230_DEV_I2C0         |-> MemMapEntry(\h9140, \h5000, \h0000, \h1000),
      K230_DEV_I2C1         |-> MemMapEntry(\h9140, \h6000, \h0000, \h1000),
      K230_DEV_I2C2         |-> MemMapEntry(\h9140, \h7000, \h0000, \h1000),
      K230_DEV_I2C3         |-> MemMapEntry(\h9140, \h8000, \h0000, \h1000),
      K230_DEV_I2C4         |-> MemMapEntry(\h9140, \h9000, \h0000, \h1000),
      K230_DEV_PWM          |-> MemMapEntry(\h9140, \hA000, \h0000, \h1000),
      K230_DEV_GPIO0        |-> MemMapEntry(\h9140, \hB000, \h0000, \h1000),
      K230_DEV_GPIO1        |-> MemMapEntry(\h9140, \hC000, \h0000, \h1000),
      K230_DEV_ADC          |-> MemMapEntry(\h9140, \hD000, \h0000, \h1000),
      K230_DEV_CODEC        |-> MemMapEntry(\h9140, \hE000, \h0000, \h1000),
      K230_DEV_I2S          |-> MemMapEntry(\h9140, \hF000, \h0000, \h1000),
      K230_DEV_USB0         |-> MemMapEntry(\h9150, \h0000, \h0001, \h0000),
      K230_DEV_USB1         |-> MemMapEntry(\h9154, \h0000, \h0001, \h0000),
      K230_DEV_SD0          |-> MemMapEntry(\h9158, \h0000, \h0000, \h1000),
      K230_DEV_SD1          |-> MemMapEntry(\h9158, \h1000, \h0000, \h1000),
      K230_DEV_QSPI0        |-> MemMapEntry(\h9158, \h2000, \h0000, \h1000),
      K230_DEV_QSPI1        |-> MemMapEntry(\h9158, \h3000, \h0000, \h1000),
      K230_DEV_SPI          |-> MemMapEntry(\h9158, \h4000, \h0000, \h1000),
      K230_DEV_HI_SYS_CFG   |-> MemMapEntry(\h9158, \h5000, \h0000, \h0400),
      K230_DEV_DDRC_CFG     |-> MemMapEntry(\h9800, \h0000, \h0200, \h0000),
      K230_DEV_FLASH        |-> MemMapEntry(\hC000, \h0000, \h0800, \h0000),
      K230_DEV_PLIC         |-> MemMapEntry(\hF000, \h0000, \h0040, \h0000),
      K230_DEV_CLINT        |-> MemMapEntry(\hF040, \h0000, \h0040, \h0000) ]

\* the designated initializers of k230_memmap, in the order written
k230_memmap_init ==
    << "K230_DEV_DDRC", "K230_DEV_KPU_L2_CACHE", "K230_DEV_SRAM",
       "K230_DEV_KPU_CFG", "K230_DEV_FFT", "K230_DEV_AI_2D_ENGINE",
       "K230_DEV_GSDMA", "K230_DEV_DMA", "K230_DEV_DECOMP_GZIP",
       "K230_DEV_NON_AI_2D", "K230_DEV_ISP", "K230_DEV_DEWARP",
       "K230_DEV_RX_CSI", "K230_DEV_H264", "K230_DEV_2P5D",
       "K230_DEV_VO", "K230_DEV_VO_CFG", "K230_DEV_3D_ENGINE",
       "K230_DEV_PMU", "K230_DEV_RTC", "K230_DEV_CMU",
       "K230_DEV_RMU", "K230_DEV_BOOT", "K230_DEV_PWR",
       "K230_DEV_MAILBOX", "K230_DEV_IOMUX", "K230_DEV_TIMER",
       "K230_DEV_WDT0", "K230_DEV_WDT1", "K230_DEV_TS",
       "K230_DEV_HDI", "K230_DEV_STC", "K230_DEV_BOOTROM",
       "K230_DEV_SECURITY", "K230_DEV_UART0", "K230_DEV_UART1",
       "K230_DEV_UART2", "K230_DEV_UART3", "K230_DEV_UART4",
       "K230_DEV_I2C0", "K230_DEV_I2C1", "K230_DEV_I2C2",
       "K230_DEV_I2C3", "K230_DEV_I2C4", "K230_DEV_PWM",
       "K230_DEV_GPIO0", "K230_DEV_GPIO1", "K230_DEV_ADC",
       "K230_DEV_CODEC", "K230_DEV_I2S", "K230_DEV_USB0",
       "K230_DEV_USB1", "K230_DEV_SD0", "K230_DEV_SD1",
       "K230_DEV_QSPI0", "K230_DEV_QSPI1", "K230_DEV_SPI",
       "K230_DEV_HI_SYS_CFG", "K230_DEV_DDRC_CFG", "K230_DEV_FLASH",
       "K230_DEV_PLIC", "K230_DEV_CLINT" >>

\* memmap[K230_DEV_UART0 + i] and memmap[K230_DEV_I2C0 + i]: the five
\* entries that follow the first one in the catalog
UartTag(i) ==
    <<"K230_DEV_UART0", "K230_DEV_UART1", "K230_DEV_UART2",
      "K230_DEV_UART3", "K230_DEV_UART4">>[i + 1]

I2cTag(i) ==
    <<"K230_DEV_I2C0", "K230_DEV_I2C1", "K230_DEV_I2C2",
      "K230_DEV_I2C3", "K230_DEV_I2C4">>[i + 1]

(* ------------------------------------------------------------------ *)
(* Interrupt numbers and controller parameters                          *)
(* ------------------------------------------------------------------ *)

K230_UART0_IRQ == 0
K230_GPIO0_IRQ0 == 16
K230_UART_IRQS == 5
K230_I2C_IRQS == 5
K230_GPIO_IRQS == 64
K230_PLIC_NUM_SOURCES == 208
K230_PLIC_NUM_PRIORITIES == 7

\* hart id bases of the two hart arrays: core 0 has base A, core 1 base A + 1
CPU0_BASE_HARTID == 0
CPU1_BASE_HARTID == CPU0_BASE_HARTID + 1

\* machine-mode interrupt inputs of a hart: software, timer, external
IRQ_M_SOFT == 3
IRQ_M_TIMER == 7
IRQ_M_EXT == 11

(* ------------------------------------------------------------------ *)
(* Bounds of the model and the inputs of a setup run                    *)
(* ------------------------------------------------------------------ *)

\* largest requested processor count (-smp)
MaxCpus == 3
\* number of distinct user-supplied documents (-dtb) written by hand; document
\* 0 is the one create_fdt produces for the configuration of the run
MaxUserDocs == 1

\* RAM sizes (-m): 1 GiB, the default 2 GiB, 3 GiB, 4 GiB, 6 GiB
RamSizes ==
    { <<0, 0, \h4000, 0>>, <<0, 0, \h8000, 0>>, <<0, 0, \hC000, 0>>,
      <<0, 1, 0, 0>>, <<0, 1, \h8000, 0>> }

\* sizes of the firmware image: 128 KiB, exactly 2 MiB
FwSizes == { <<0, 0, \h0002, 0>>, <<0, 0, \h0020, 0>> }

\* offset of the entry the image loader discovers in the kernel image
KernelEntryOffsets == { Zero64, <<0, 0, 0, \h0040>> }

\* size of the kernel image: 1 MiB
KernelSize == <<0, 0, \h0010, 0>>

\* a user-supplied, pre-built document
UserDoc(k) ==
    << [name |-> [kind |-> "/", unit |-> 0],
        props |-> [model |-> [str |-> "user-supplied"],
                   id |-> [cells |-> << <<0, k>> >>]]] >>

VARIABLES
    machine,            \* MachineState configuration: smp.cpus, dtb, kernel_filename, ram_size
    env,                \* the files and the host the run meets
    pc,                 \* position in k230_machine_init / create_fdt
    mem_size,           \* uint32_t mem_size of k230_machine_init
    hart_arrays,        \* RISCVHartArrayState children of the SoC
    gpios,              \* SIFIVEGPIOState children of the SoC
    plic,               \* s->plic: <<>> or <<the controller>>
    clint,              \* the ACLINT swi and mtimer devices
    regions,            \* memory regions and devices mapped into system memory
    irqs,               \* connected interrupt lines
    fdt,                \* machine->fdt: the document, a sequence of nodes
    cf,                 \* locals of create_fdt
    boot,               \* locals of k230_machine_init after the document stage
    trace,              \* the external operations invoked so far, in order
    rom,                \* the blob placed in the boot ROM, byte by byte
    harts               \* the harts executing after setup

vars == << machine, env, pc, mem_size, hart_arrays, gpios, plic, clint,
           regions, irqs, fdt, cf, boot, trace, rom, harts >>

\* the parts of the machine built by the SoC
socVars == << hart_arrays, gpios, plic, clint, irqs >>

cfInit ==
    [ phandle |-> 0, def_50mhz_phandle |-> 0, rtcclk_phandle |-> 0,
      plic_phandle |-> 0, cpu |-> 0, i |-> 0 ]

bootInit ==
    [ start_addr |-> Zero64, firmware_end_addr |-> Zero64,
      kernel_start_addr |-> Zero64, kernel_entry |-> Zero64,
      image_low_addr |-> Zero64, fdt_load_addr |-> <<>> ]

Init ==
    /\ machine \in [ smp_cpus : 1 .. MaxCpus,
                     dtb : BOOLEAN,
                     kernel_filename : BOOLEAN,
                     ram_size : RamSizes,
                     strict_ram : BOOLEAN ]
    /\ env \in [ dtb_loadable : BOOLEAN,
                 dtb_doc : 0 .. MaxUserDocs,
                 firmware : BOOLEAN,
                 firmware_size : FwSizes,
                 kernel_entry_off : KernelEntryOffsets,
                 host_big_endian : BOOLEAN ]
    \* what is not consulted in a run is fixed, so that equal runs are one run
    /\ machine.dtb \/ (~env.dtb_loadable /\ env.dtb_doc = 1)
    /\ env.dtb_loadable \/ env.dtb_doc = 1
    /\ env.firmware \/ env.firmware_size = <<0, 0, \h0002, 0>>
    /\ machine.kernel_filename \/ env.kernel_entry_off = Zero64
    /\ pc = "start"
    /\ mem_size = <<0, 0>>
    /\ hart_arrays = {}
    /\ gpios = {}
    /\ plic = <<>>
    /\ clint = {}
    /\ regions = {}
    /\ irqs = {}
    /\ fdt = <<>>
    /\ cf = cfInit
    /\ boot = bootInit
    /\ trace = <<>>
    /\ rom = <<>>
    /\ harts = <<>>

\* an external operation of the platform, as recorded in the trace
Call(op, addr) == [op |-> op, addr |-> addr, data |-> << >>]

\* a blob written into the address space at addr
Place(what, addr, data) == [op |-> what, addr |-> addr, data |-> data]

(* ------------------------------------------------------------------ *)
(* k230_machine_init: SoC and RAM                                       *)
(* ------------------------------------------------------------------ *)

\* uint32_t mem_size = machine->ram_size; hwaddr start_addr = DDR base
MachineInitBegin ==
    /\ pc = "start"
    /\ mem_size' = Lo32(machine.ram_size)
    /\ boot' = [boot EXCEPT !.start_addr = k230_memmap.K230_DEV_DDRC.base]
    /\ pc' = "soc_instance_init"
    /\ UNCHANGED << machine, env, socVars, regions, fdt, cf, trace, rom, harts >>

HartArray(name, hartid_base, cpu_type) ==
    [ name |-> name, num_harts |-> 1, hartid_base |-> hartid_base,
      cpu_type |-> cpu_type,
      resetvec |-> k230_memmap.K230_DEV_BOOTROM.base,
      realized |-> FALSE ]

\* the limit off by one
TooManyCpus_OffByOne(n) == n > 3

\* the processor count a hart array, GPIO bank or controller may be built for
TooManyCpus(n) == n > 2

\* object_initialize_child(.., TYPE_RISCV_K230_SOC) runs k230_soc_instance_init
SocInstanceInit ==
    /\ pc = "soc_instance_init"
    /\ IF TooManyCpus(machine.smp_cpus)
       THEN /\ pc' = "fatal"
            /\ trace' = Append(trace, Call("error_report:cpus", Zero64))
            /\ UNCHANGED << hart_arrays, gpios >>
       ELSE /\ hart_arrays' =
                 { HartArray("c908-cpus", CPU0_BASE_HARTID, "K230_C908_CPU") }
                 \cup (IF machine.smp_cpus = 2
                       THEN { HartArray("c908v-cpus", CPU1_BASE_HARTID,
                                        "K230_C908V_CPU") }
                       ELSE {})
            /\ gpios' = { [name |-> "sifive.gpio0", ngpio |-> K230_GPIO_IRQS,
                           realized |-> FALSE],
                          [name |-> "sifive.gpio1", ngpio |-> K230_GPIO_IRQS,
                           realized |-> FALSE] }
            /\ pc' = "soc_realize"
            /\ UNCHANGED trace
    /\ UNCHANGED << machine, env, mem_size, plic, clint, regions, irqs, fdt,
                    cf, boot, rom, harts >>

(* ------------------------------------------------------------------ *)
(* k230_soc_realize                                                     *)
(* ------------------------------------------------------------------ *)

Region(name, kind, base, size) ==
    [name |-> name, kind |-> kind, base |-> base, size |-> size]

Irq(src, unit, line, dst, input) ==
    [src |-> src, unit |-> unit, line |-> line, dst |-> dst, input |-> input]

\* create_unimplemented_device(name, memmap[tag].base, memmap[tag].size)
UnimpDevices ==
    { <<"kpu.l2-cache", "K230_DEV_KPU_L2_CACHE">>, <<"kpu_cfg", "K230_DEV_KPU_CFG">>,
      <<"fft", "K230_DEV_FFT">>, <<"ai.2d-engine", "K230_DEV_AI_2D_ENGINE">>,
      <<"gsdma", "K230_DEV_GSDMA">>, <<"dma", "K230_DEV_DMA">>,
      <<"decomp.gzip", "K230_DEV_DECOMP_GZIP">>, <<"non_ai.2d", "K230_DEV_NON_AI_2D">>,
      <<"isp", "K230_DEV_ISP">>, <<"dewarp", "K230_DEV_DEWARP">>,
      <<"rx_csi", "K230_DEV_RX_CSI">>, <<"h264", "K230_DEV_H264">>,
      <<"2p5d", "K230_DEV_2P5D">>, <<"vo", "K230_DEV_VO">>,
      <<"vo_cfg", "K230_DEV_VO_CFG">>, <<"3d_engine", "K230_DEV_3D_ENGINE">>,
      <<"pmu", "K230_DEV_PMU">>, <<"rtc", "K230_DEV_RTC">>,
      <<"cmu", "K230_DEV_CMU">>, <<"rmu", "K230_DEV_RMU">>,
      <<"boot", "K230_DEV_BOOT">>, <<"pwr", "K230_DEV_PWR">>,
      <<"mailbox", "K230_DEV_MAILBOX">>, <<"iomux", "K230_DEV_IOMUX">>,
      <<"timer", "K230_DEV_TIMER">>, <<"wdt0", "K230_DEV_WDT0">>,
      <<"wdt1", "K230_DEV_WDT1">>, <<"ts", "K230_DEV_TS">>,
      <<"hdi", "K230_DEV_HDI">>, <<"stc", "K230_DEV_STC">>,
      <<"security", "K230_DEV_SECURITY">>, <<"pwm", "K230_DEV_PWM">>,
      <<"adc", "K230_DEV_ADC">>, <<"codec", "K230_DEV_CODEC">>,
      <<"i2s", "K230_DEV_I2S">>, <<"usb0", "K230_DEV_USB0">>,
      <<"usb1", "K230_DEV_USB1">>, <<"sd0", "K230_DEV_SD0">>,
      <<"sd1", "K230_DEV_SD1">>, <<"qopi0", "K230_DEV_QSPI0">>,
      <<"qopi1", "K230_DEV_QSPI1">>, <<"spi", "K230_DEV_SPI">>,
      <<"hi_sys_config", "K230_DEV_HI_SYS_CFG">>,
      <<"ddrc config", "K230_DEV_DDRC_CFG">>, <<"flash", "K230_DEV_FLASH">> }

\* for (hart = 0; hart < num_harts; hart++): PLIC output hart to the
\* external-interrupt input of the hart array that holds processor hart
PlicOutputIrqs(num_harts) ==
    { Irq("plic", 0, hart,
          IF hart = 0 THEN "c908-cpus" ELSE "c908v-cpus", IRQ_M_EXT) :
      hart \in { h \in 0 .. num_harts - 1 : h = 0 \/ h = 1 } }

\* every UART one input further up
UartIrqs_Shifted ==
    { Irq("uart", i, 0, "plic", K230_UART0_IRQ + i + 1) : i \in 0 .. K230_UART_IRQS - 1 }

\* serial_mm_init(.., qdev_get_gpio_in(plic, K230_UART0_IRQ + i), ..)
UartIrqs ==
    { Irq("uart", i, 0, "plic", K230_UART0_IRQ + i) : i \in 0 .. K230_UART_IRQS - 1 }

\* bank 1 given the block of bank 0
GpioIrqs_SameBlock ==
    { Irq("gpio", 0, i, "plic", K230_GPIO0_IRQ0 + i) : i \in 0 .. K230_GPIO_IRQS - 1 }
    \cup
    { Irq("gpio", 1, i, "plic", K230_GPIO0_IRQ0 + i) : i \in 0 .. K230_GPIO_IRQS - 1 }

\* sysbus_connect_irq(gpio0 / gpio1, i, qdev_get_gpio_in(plic, ..))
GpioIrqs ==
    { Irq("gpio", 0, i, "plic", K230_GPIO0_IRQ0 + i) : i \in 0 .. K230_GPIO_IRQS - 1 }
    \cup
    { Irq("gpio", 1, i, "plic", K230_GPIO0_IRQ0 + K230_GPIO_IRQS + i) :
      i \in 0 .. K230_GPIO_IRQS - 1 }

SocRegions ==
    { Region("sram", "ram", k230_memmap.K230_DEV_SRAM.base,
             k230_memmap.K230_DEV_SRAM.size),
      Region("bootrom", "rom", k230_memmap.K230_DEV_BOOTROM.base,
             k230_memmap.K230_DEV_BOOTROM.size),
      Region("plic", "plic", k230_memmap.K230_DEV_PLIC.base,
             k230_memmap.K230_DEV_PLIC.size),
      Region("sifive.gpio0", "gpio", k230_memmap.K230_DEV_GPIO0.base, Zero64),
      Region("sifive.gpio1", "gpio", k230_memmap.K230_DEV_GPIO1.base, Zero64) }
    \cup { Region("serial", "serial", k230_memmap[UartTag(i)].base, Zero64) :
           i \in 0 .. K230_UART_IRQS - 1 }
    \cup { Region("i2c", "unimp", k230_memmap[I2cTag(i)].base,
                  k230_memmap[I2cTag(i)].size) : i \in 0 .. K230_I2C_IRQS - 1 }
    \cup { Region(d[1], "unimp", k230_memmap[d[2]].base, k230_memmap[d[2]].size) :
           d \in UnimpDevices }

\* qdev_realize(DEVICE(&s->soc), ..) runs k230_soc_realize
SocRealize ==
    /\ pc = "soc_realize"
    /\ LET num_harts == machine.smp_cpus
       IN  /\ hart_arrays' =
                { IF a.name = "c908-cpus" \/ num_harts = 2
                  THEN [a EXCEPT !.realized = TRUE] ELSE a : a \in hart_arrays }
           /\ plic' = << [ base |-> k230_memmap.K230_DEV_PLIC.base,
                           num_harts |-> num_harts,
                           hartid_base |-> CPU0_BASE_HARTID,
                           num_sources |-> K230_PLIC_NUM_SOURCES,
                           num_priorities |-> K230_PLIC_NUM_PRIORITIES,
                           size |-> k230_memmap.K230_DEV_PLIC.size ] >>
           /\ clint' = { [ type |-> "swi", base |-> k230_memmap.K230_DEV_CLINT.base,
                           offset |-> "0", hartid_base |-> CPU0_BASE_HARTID,
                           num_harts |-> num_harts ],
                         [ type |-> "mtimer", base |-> k230_memmap.K230_DEV_CLINT.base,
                           offset |-> "RISCV_ACLINT_SWI_SIZE",
                           hartid_base |-> CPU0_BASE_HARTID,
                           num_harts |-> num_harts ] }
           /\ irqs' = irqs \cup PlicOutputIrqs(num_harts) \cup UartIrqs \cup GpioIrqs
    /\ gpios' = { [g EXCEPT !.realized = TRUE] : g \in gpios }
    /\ regions' = regions \cup SocRegions
    /\ pc' = "ram"
    /\ UNCHANGED << machine, env, mem_size, fdt, cf, boot, trace, rom, harts >>

\* the strict variant: a RAM size other than the fixed hardware RAM size is
\* a fatal error
RamSizeRejected(m) ==
    m.strict_ram /\ m.ram_size # k230_memmap.K230_DEV_DDRC.size

\* the RAM mapped at the SRAM base
RamBase_Sram == k230_memmap.K230_DEV_SRAM.base

\* memory_region_add_subregion(sys_mem, memmap[K230_DEV_DDRC].base, machine->ram)
RamBase == k230_memmap.K230_DEV_DDRC.base

\* memory_region_init_ram(machine->ram, NULL, "k230.dram", mem_size, ..) and
\* its mapping at the DDR base
RamInit ==
    /\ pc = "ram"
    /\ IF RamSizeRejected(machine)
       THEN /\ pc' = "fatal"
            /\ trace' = Append(trace, Call("error_report:ram", Zero64))
            /\ UNCHANGED regions
       ELSE /\ regions' = regions \cup
                  { Region("k230.dram", "ram", RamBase, ZExt32(mem_size)) }
            /\ pc' = "device_tree"
            /\ UNCHANGED trace
    /\ UNCHANGED << machine, env, mem_size, socVars, fdt, cf, boot, rom, harts >>

(* ------------------------------------------------------------------ *)
(* The document: nodes in emission order, each with its properties.     *)
(* A property holds a string, Str(..), or a sequence of big-endian      *)
(* 32-bit cells, Cells(..).                                             *)
(* ------------------------------------------------------------------ *)

Str(text) == [str |-> text]
Cells(cs) == [cells |-> cs]

\* the path of a node: "/soc/serial@91400000" is NodeName("/soc/serial", base)
NodeName(kind, unit) == [kind |-> kind, unit |-> unit]

\* create_device_tree(): the empty document, root node only
create_device_tree == << [name |-> NodeName("/", Zero64), props |-> << >>] >>

qemu_fdt_add_subnode(d, name) == Append(d, [name |-> name, props |-> << >>])

\* qemu_fdt_setprop*(fdt, name, prop, val): set or replace one property
qemu_fdt_setprop(d, name, prop, val) ==
    [ k \in DOMAIN d |->
        IF d[k].name = name
        THEN [d[k] EXCEPT !.props = (prop :> val) @@ @]
        ELSE d[k] ]

\* a run of qemu_fdt_setprop* calls on one node, in order
RECURSIVE SetProps(_, _, _)
SetProps(d, name, ps) ==
    IF ps = << >> THEN d
    ELSE SetProps(qemu_fdt_setprop(d, name, ps[1][1], ps[1][2]), name, Tail(ps))

HasNode(d, name) == \E k \in DOMAIN d : d[k].name = name

NodeOf(d, name) == d[CHOOSE k \in DOMAIN d : d[k].name = name]

HasProp(n, prop) == prop \in DOMAIN n.props

\* qemu_fdt_get_phandle(fdt, path): the value of the node's phandle property
\* as a C integer, 0 when there is none
qemu_fdt_get_phandle(d, name) ==
    IF HasNode(d, name) /\ HasProp(NodeOf(d, name), "phandle")
    THEN NodeOf(d, name).props["phandle"].cells[1][2]
    ELSE 0

\* qemu_fdt_setprop_cell(.., val): one cell
OneCell(n) == Cells(<< Cell(n) >>)

CpuNodeName(cpu) == NodeName("/cpus/cpu", Val64(cpu))
IntcNodeName(cpu) == NodeName("/cpus/cpu/interrupt-controller", Val64(cpu))
ClintNodeName == NodeName("/soc/clint", k230_memmap.K230_DEV_CLINT.base)
PlicNodeName == NodeName("/soc/interrupt-controller", k230_memmap.K230_DEV_PLIC.base)
SerialNodeName(i) == NodeName("/soc/serial", k230_memmap[UartTag(i)].base)
MemoryNodeName == NodeName("/memory", k230_memmap.K230_DEV_DDRC.base)

(* ------------------------------------------------------------------ *)
(* create_fdt, one step per group of nodes; each step maps the          *)
(* document and the locals [fdt, cf] to their next values               *)
(* ------------------------------------------------------------------ *)

\* root properties and the /soc container; phandle = 1
CfBeginOp(m, st) ==
    LET d0 == create_device_tree
        d1 == SetProps(d0, NodeName("/", Zero64),
                << <<"model", Str("kendryte k230 canmv")>>,
                   <<"compatible", Str("kendryte,k230_canmv")>>,
                   <<"#address-cells", OneCell(2)>>,
                   <<"#size-cells", OneCell(2)>> >>)
        d2 == qemu_fdt_add_subnode(d1, NodeName("/soc", Zero64))
        d3 == SetProps(d2, NodeName("/soc", Zero64),
                << <<"ranges", Cells(<< >>)>>,
                   <<"compatible", Str("simple-bus")>>,
                   <<"#size-cells", OneCell(2)>>,
                   <<"#address-cells", OneCell(2)>> >>)
    IN  [fdt |-> d3, cf |-> [st.cf EXCEPT !.phandle = 1]]

FixedClock(d, kind, ph, outname, freq) ==
    SetProps(qemu_fdt_add_subnode(d, NodeName(kind, Zero64)), NodeName(kind, Zero64),
        << <<"phandle", OneCell(ph)>>,
           <<"clock-output-names", Str(outname)>>,
           <<"clock-frequency", Str(freq)>>,
           <<"compatible", Str("fixed-clock")>>,
           <<"#clock-cells", OneCell(0)>> >>)

\* def_50mhz_phandle = phandle++; .. rtcclk_phandle = phandle++; ..
CfClocksOp(m, st) ==
    LET p1 == st.cf.phandle
        p2 == p1 + 1
        d1 == FixedClock(st.fdt, "/def_50mhz", p1, "fix-50mhz", "K230_FIX50M_FREQ")
        d2 == FixedClock(d1, "/rtcclk", p2, "rtcclk", "K230_RTCCLK_FREQ")
    IN  [fdt |-> d2,
         cf |-> [st.cf EXCEPT !.def_50mhz_phandle = p1, !.rtcclk_phandle = p2,
                              !.phandle = p2 + 1]]

\* the memory node sized by the catalog instead of ms->ram_size
CfMemoryOp_CatalogSize(m, st) ==
    LET mem_size64 == k230_memmap.K230_DEV_DDRC.size
        base == k230_memmap.K230_DEV_DDRC.base
        d1 == qemu_fdt_add_subnode(st.fdt, MemoryNodeName)
        d2 == SetProps(d1, MemoryNodeName,
                << <<"device_type", Str("memory")>>,
                   <<"reg", Cells(<< Lo32(Shr32(base)), Lo32(base),
                                     Lo32(Shr32(mem_size64)), Lo32(mem_size64) >>)>> >>)
    IN  [fdt |-> d2, cf |-> st.cf]

\* the memory node: reg = <base >> 32, base, mem_size >> 32, mem_size> with
\* uint64_t mem_size = ms->ram_size
CfMemoryOp(m, st) ==
    LET mem_size64 == m.ram_size
        base == k230_memmap.K230_DEV_DDRC.base
        d1 == qemu_fdt_add_subnode(st.fdt, MemoryNodeName)
        d2 == SetProps(d1, MemoryNodeName,
                << <<"device_type", Str("memory")>>,
                   <<"reg", Cells(<< Lo32(Shr32(base)), Lo32(base),
                                     Lo32(Shr32(mem_size64)), Lo32(mem_size64) >>)>> >>)
    IN  [fdt |-> d2, cf |-> st.cf]

CfCpusOp(m, st) ==
    LET d1 == qemu_fdt_add_subnode(st.fdt, NodeName("/cpus", Zero64))
        d2 == SetProps(d1, NodeName("/cpus", Zero64),
                << <<"#address-cells", OneCell(1)>>,
                   <<"#size-cells", OneCell(0)>>,
                   <<"timebase-frequency", Str("K230_TIMEBASE_FREQ")>> >>)
    IN  [fdt |-> d2, cf |-> [st.cf EXCEPT !.cpu = 0]]

\* the cpu loop with cpu_phandle = phandle, the counter not advanced
CfCpuOp_NoIncrement(m, st) ==
    LET cpu == st.cf.cpu
        cpu_phandle == st.cf.phandle
        d1 == qemu_fdt_add_subnode(st.fdt, CpuNodeName(cpu))
        d2 == SetProps(d1, CpuNodeName(cpu),
                << <<"compatible", Str("riscv")>>,
                   <<"riscv,isa", Str("rv64imafdcvsu")>>,
                   <<"mmu-type", Str("riscv,sv39")>>,
                   <<"clock-frequency", Str("K230_CPUCLK_FREQ")>>,
                   <<"riscv,isa", Str(IF cpu = 0 THEN "riscv_isa_write_fdt(c908_cpu)"
                                                 ELSE "riscv_isa_write_fdt(c908v_cpu)")>>,
                   <<"status", Str("okay")>>,
                   <<"reg", OneCell(cpu)>>,
                   <<"device_type", Str("cpu")>> >>)
        d3 == qemu_fdt_add_subnode(d2, IntcNodeName(cpu))
        d4 == SetProps(d3, IntcNodeName(cpu),
                << <<"phandle", OneCell(cpu_phandle)>>,
                   <<"compatible", Str("riscv,cpu-intc")>>,
                   <<"interrupt-controller", Cells(<< >>)>>,
                   <<"#interrupt-cells", OneCell(1)>> >>)
    IN  [fdt |-> d4,
         cf |-> [st.cf EXCEPT !.phandle = cpu_phandle, !.cpu = cpu + 1]]

\* one iteration of for (cpu = 0; cpu < ms->smp.cpus; cpu++): the cpu node
\* and its nested interrupt controller, which takes phandle++
CfCpuOp(m, st) ==
    LET cpu == st.cf.cpu
        cpu_phandle == st.cf.phandle
        d1 == qemu_fdt_add_subnode(st.fdt, CpuNodeName(cpu))
        d2 == SetProps(d1, CpuNodeName(cpu),
                << <<"compatible", Str("riscv")>>,
                   <<"riscv,isa", Str("rv64imafdcvsu")>>,
                   <<"mmu-type", Str("riscv,sv39")>>,
                   <<"clock-frequency", Str("K230_CPUCLK_FREQ")>>,
                   <<"riscv,isa", Str(IF cpu = 0 THEN "riscv_isa_write_fdt(c908_cpu)"
                                                 ELSE "riscv_isa_write_fdt(c908v_cpu)")>>,
                   <<"status", Str("okay")>>,
                   <<"reg", OneCell(cpu)>>,
                   <<"device_type", Str("cpu")>> >>)
        d3 == qemu_fdt_add_subnode(d2, IntcNodeName(cpu))
        d4 == SetProps(d3, IntcNodeName(cpu),
                << <<"phandle", OneCell(cpu_phandle)>>,
                   <<"compatible", Str("riscv,cpu-intc")>>,
                   <<"interrupt-controller", Cells(<< >>)>>,
                   <<"#interrupt-cells", OneCell(1)>> >>)
    IN  [fdt |-> d4,
         cf |-> [st.cf EXCEPT !.phandle = cpu_phandle + 1, !.cpu = cpu + 1]]

\* every edge given the handle of processor 0
ClintCells_Cpu0(d, n) ==
    [ k \in 1 .. 4 * n |->
        LET j == (k - 1) % 4
            intc_phandle == qemu_fdt_get_phandle(d, IntcNodeName(0))
        IN  IF j = 0 \/ j = 2 THEN Cell(intc_phandle)
            ELSE IF j = 1 THEN Cell(IRQ_M_SOFT) ELSE Cell(IRQ_M_TIMER) ]

\* cells[cpu * 4 + 0..3] = intc_phandle, IRQ_M_SOFT, intc_phandle, IRQ_M_TIMER
ClintCells(d, n) ==
    [ k \in 1 .. 4 * n |->
        LET cpu == (k - 1) \div 4
            j == (k - 1) % 4
            intc_phandle == qemu_fdt_get_phandle(d, IntcNodeName(cpu))
        IN  IF j = 0 \/ j = 2 THEN Cell(intc_phandle)
            ELSE IF j = 1 THEN Cell(IRQ_M_SOFT) ELSE Cell(IRQ_M_TIMER) ]

\* cells[cpu * 2 + 0..1] = intc_phandle, IRQ_M_EXT
PlicCells(d, n) ==
    [ k \in 1 .. 2 * n |->
        LET cpu == (k - 1) \div 2
            j == (k - 1) % 2
            intc_phandle == qemu_fdt_get_phandle(d, IntcNodeName(cpu))
        IN  IF j = 0 THEN Cell(intc_phandle) ELSE Cell(IRQ_M_EXT) ]

CfClintOp(m, st) ==
    LET cells == ClintCells(st.fdt, m.smp_cpus)
        d1 == qemu_fdt_add_subnode(st.fdt, ClintNodeName)
        d2 == SetProps(d1, ClintNodeName,
                << <<"compatible", Str("riscv,clint0")>>,
                   <<"reg", Cells(<< Cell(0), Lo32(k230_memmap.K230_DEV_CLINT.base),
                                     Cell(0), Lo32(k230_memmap.K230_DEV_CLINT.size) >>)>>,
                   <<"interrupts-extended", Cells(cells)>> >>)
    IN  [fdt |-> d2, cf |-> st.cf]

\* plic_phandle = phandle++; the controller node; plic_phandle read back
CfPlicOp(m, st) ==
    LET plic_phandle == st.cf.phandle
        cells == PlicCells(st.fdt, m.smp_cpus)
        d1 == qemu_fdt_add_subnode(st.fdt, PlicNodeName)
        d2 == SetProps(d1, PlicNodeName,
                << <<"#interrupt-cells", OneCell(1)>>,
                   <<"compatible", Str("riscv,plic0")>>,
                   <<"interrupt-controller", Cells(<< >>)>>,
                   <<"interrupts-extended", Cells(cells)>>,
                   <<"reg", Cells(<< Cell(0), Lo32(k230_memmap.K230_DEV_PLIC.base),
                                     Cell(0), Lo32(k230_memmap.K230_DEV_PLIC.size) >>)>>,
                   <<"riscv,ndev", OneCell(K230_PLIC_NUM_SOURCES - 1)>>,
                   <<"phandle", OneCell(plic_phandle)>> >>)
    IN  [fdt |-> d2,
         cf |-> [st.cf EXCEPT !.phandle = plic_phandle + 1,
                              !.plic_phandle = qemu_fdt_get_phandle(d2, PlicNodeName),
                              !.i = 0]]

\* interrupt-parent taken from the handle counter instead of plic_phandle
CfSerialOp_CounterAsParent(m, st) ==
    LET i == st.cf.i
        d1 == qemu_fdt_add_subnode(st.fdt, SerialNodeName(i))
        d2 == SetProps(d1, SerialNodeName(i),
                << <<"compatible", Str("snps,dw-apb-uart")>>,
                   <<"reg", Cells(<< Cell(0), Lo32(k230_memmap[UartTag(i)].base),
                                     Cell(0), Cell(1024) >>)>>,
                   <<"clocks", OneCell(st.cf.def_50mhz_phandle)>>,
                   <<"clock-names", Str("baudclk")>>,
                   <<"reg-shift", OneCell(2)>>,
                   <<"reg-io-width", OneCell(4)>>,
                   <<"interrupts", OneCell(K230_UART0_IRQ + i)>>,
                   <<"interrupt-parent", OneCell(st.cf.phandle)>> >>)
    IN  [fdt |-> d2, cf |-> [st.cf EXCEPT !.i = i + 1]]

\* one iteration of for (int i = 0; i < K230_UART_IRQS; i++)
CfSerialOp(m, st) ==
    LET i == st.cf.i
        d1 == qemu_fdt_add_subnode(st.fdt, SerialNodeName(i))
        d2 == SetProps(d1, SerialNodeName(i),
                << <<"compatible", Str("snps,dw-apb-uart")>>,
                   <<"reg", Cells(<< Cell(0), Lo32(k230_memmap[UartTag(i)].base),
                                     Cell(0), Cell(1024) >>)>>,
                   <<"clocks", OneCell(st.cf.def_50mhz_phandle)>>,
                   <<"clock-names", Str("baudclk")>>,
                   <<"reg-shift", OneCell(2)>>,
                   <<"reg-io-width", OneCell(4)>>,
                   <<"interrupts", OneCell(K230_UART0_IRQ + i)>>,
                   <<"interrupt-parent", OneCell(st.cf.plic_phandle)>> >>)
    IN  [fdt |-> d2, cf |-> [st.cf EXCEPT !.i = i + 1]]

\* /chosen given a property holding kernel_entry as two cells
CfChosenOp_WithEntry(m, st) ==
    LET d1 == qemu_fdt_add_subnode(st.fdt, NodeName("/aliases", Zero64))
        d2 == qemu_fdt_setprop(d1, NodeName("/aliases", Zero64), "uart0",
                               Str("/soc/serial@91400000"))
        d3 == qemu_fdt_add_subnode(d2, NodeName("/chosen", Zero64))
        d4 == SetProps(d3, NodeName("/chosen", Zero64),
                << <<"bootargs", Str("console=ttyS0,115200n8 debug loglevel=7")>>,
                   <<"stdout-path", Str("uart0:115200n8")>>,
                   <<"kernel-entry", Cells(<< Lo32(Shr32(boot.kernel_entry)),
                                              Lo32(boot.kernel_entry) >>)>> >>)
    IN  [fdt |-> d4, cf |-> st.cf]

\* /aliases and /chosen
CfChosenOp(m, st) ==
    LET d1 == qemu_fdt_add_subnode(st.fdt, NodeName("/aliases", Zero64))
        d2 == qemu_fdt_setprop(d1, NodeName("/aliases", Zero64), "uart0",
                               Str("/soc/serial@91400000"))
        d3 == qemu_fdt_add_subnode(d2, NodeName("/chosen", Zero64))
        d4 == SetProps(d3, NodeName("/chosen", Zero64),
                << <<"bootargs", Str("console=ttyS0,115200n8 debug loglevel=7")>>,
                   <<"stdout-path", Str("uart0:115200n8")>> >>)
    IN  [fdt |-> d4, cf |-> st.cf]

\* create_fdt(s, k230_memmap) as a whole, for 1 or 2 processors: the steps
\* above in the order of the code, each applied to the value of the locals
\* the step before it left
create_fdt(m) ==
    LET s0 == CfBeginOp(m, [fdt |-> << >>, cf |-> cfInit])
        s1 == (CHOOSE r \in { CfClocksOp(m, v) : v \in { s0 } } : TRUE)
        s2 == (CHOOSE r \in { CfMemoryOp(m, v) : v \in { s1 } } : TRUE)
        s3 == (CHOOSE r \in { CfCpusOp(m, v) : v \in { s2 } } : TRUE)
        s4 == (CHOOSE r \in { CfCpuOp(m, v) : v \in { s3 } } : TRUE)
        s5 == IF m.smp_cpus > 1 THEN (CHOOSE r \in { CfCpuOp(m, v) : v \in { s4 } } : TRUE) ELSE s4
        s6 == (CHOOSE r \in { CfClintOp(m, v) : v \in { s5 } } : TRUE)
        s7 == (CHOOSE r \in { CfPlicOp(m, v) : v \in { s6 } } : TRUE)
        u1 == (CHOOSE r \in { CfSerialOp(m, v) : v \in { s7 } } : TRUE)
        u2 == (CHOOSE r \in { CfSerialOp(m, v) : v \in { u1 } } : TRUE)
        u3 == (CHOOSE r \in { CfSerialOp(m, v) : v \in { u2 } } : TRUE)
        u4 == (CHOOSE r \in { CfSerialOp(m, v) : v \in { u3 } } : TRUE)
        u5 == (CHOOSE r \in { CfSerialOp(m, v) : v \in { u4 } } : TRUE)
    IN  (CHOOSE r \in { CfChosenOp(m, v) : v \in { u5 } } : TRUE).fdt

(* ------------------------------------------------------------------ *)
(* The document as a file: the flattened stream of begin-node, property *)
(* and end-node tokens, and its reading back                            *)
(* ------------------------------------------------------------------ *)

RECURSIVE PropTokens(_, _)
PropTokens(props, names) ==
    IF names = {} THEN << >>
    ELSE LET p == CHOOSE x \in names : TRUE
         IN  << [tag |-> "FDT_PROP", name |-> p, val |-> props[p]] >>
             \o PropTokens(props, names \ {p})

RECURSIVE NodeTokens(_, _)
NodeTokens(doc, k) ==
    IF k > Len(doc) THEN << >>
    ELSE << [tag |-> "FDT_BEGIN_NODE", name |-> doc[k].name] >>
         \o PropTokens(doc[k].props, DOMAIN doc[k].props)
         \o << [tag |-> "FDT_END_NODE"] >>
         \o NodeTokens(doc, k + 1)

\* the file a document is written to
DtbWrite(doc) == NodeTokens(doc, 1)

\* the positions of the begin-node tokens of a file, in order
NodeStarts(toks) ==
    SelectSeq([ i \in DOMAIN toks |-> i ], LAMBDA i : toks[i].tag = "FDT_BEGIN_NODE")

\* the position of the end-node token that closes the node begun at b
NodeEnd(toks, b) ==
    CHOOSE e \in b + 1 .. Len(toks) :
        /\ toks[e].tag = "FDT_END_NODE"
        /\ \A j \in b + 1 .. e - 1 : toks[j].tag # "FDT_END_NODE"

\* load_device_tree(filename, &size): the document the file holds, each node
\* with the properties between its begin and end tokens
load_device_tree(file) ==
    LET bs == NodeStarts(file)
    IN  [ k \in 1 .. Len(bs) |->
            LET ps == { i \in bs[k] + 1 .. NodeEnd(file, bs[k]) - 1 :
                        file[i].tag = "FDT_PROP" }
            IN  [ name |-> file[bs[k]].name,
                  props |-> [ p \in { file[i].name : i \in ps } |->
                                file[CHOOSE i \in ps : file[i].name = p].val ] ] ]

\* the file machine->dtb names: a hand-written document, or the document
\* create_fdt produced in an earlier run with the same configuration
DtbFile(m, e) ==
    DtbWrite(IF e.dtb_doc = 0 THEN create_fdt(m) ELSE UserDoc(e.dtb_doc))

(* ------------------------------------------------------------------ *)
(* k230_machine_init: load or create the device tree                    *)
(* ------------------------------------------------------------------ *)

\* the supplied document ignored
UseDtb_Never(m) == FALSE

\* a failed load falling through to the firmware stage
LoadFailedNext_FallThrough == "firmware"

\* if (machine->dtb): a pre-built document is supplied
UseDtb(m) == m.dtb

\* if (!machine->fdt) { error_report(..); exit(1); }: where a failed load goes
LoadFailedNext == "fatal"

\* if (machine->dtb) { machine->fdt = load_device_tree(..); fatal when NULL }
\* the loaded document dropped for an empty one
LoadedFdt_Fresh(m, e) == create_device_tree

\* machine->fdt = load_device_tree(machine->dtb, &s->fdt_size)
LoadedFdt(m, e) == load_device_tree(DtbFile(m, e))

LoadDeviceTree ==
    /\ pc = "device_tree"
    /\ UseDtb(machine)
    /\ IF env.dtb_loadable
       THEN /\ fdt' = LoadedFdt(machine, env)
            /\ trace' = Append(trace, Call("load_device_tree", Zero64))
            /\ pc' = "firmware"
       ELSE /\ fdt' = fdt
            /\ trace' = trace \o << Call("load_device_tree", Zero64),
                                    Call("error_report:dtb", Zero64) >>
            /\ pc' = LoadFailedNext
    /\ UNCHANGED << machine, env, mem_size, socVars, regions, cf, boot, rom, harts >>

CfApply(r, step, next) ==
    /\ fdt' = r.fdt
    /\ cf' = r.cf
    /\ trace' = Append(trace, Call(step, Zero64))
    /\ pc' = next
    /\ UNCHANGED << machine, env, mem_size, socVars, regions, boot, rom, harts >>

CfState == [fdt |-> fdt, cf |-> cf]

\* else { create_fdt(s, k230_memmap); }: entry, the processor-count check,
\* create_device_tree and the root and /soc properties
CreateFdtBegin ==
    /\ pc = "device_tree"
    /\ ~UseDtb(machine)
    /\ IF machine.smp_cpus > 2
       THEN /\ pc' = "fatal"
            /\ trace' = trace \o << Call("create_fdt", Zero64),
                                    Call("error_report:cpus", Zero64) >>
            /\ UNCHANGED << machine, env, mem_size, socVars, regions, fdt, cf,
                            boot, rom, harts >>
       ELSE CfApply(CfBeginOp(machine, CfState), "create_fdt", "cf_clocks")

CreateFdtClocks ==
    /\ pc = "cf_clocks"
    /\ CfApply(CfClocksOp(machine, CfState), "create_fdt:clocks", "cf_memory")

CreateFdtMemory ==
    /\ pc = "cf_memory"
    /\ CfApply(CfMemoryOp(machine, CfState), "create_fdt:memory", "cf_cpus")

CreateFdtCpus ==
    /\ pc = "cf_cpus"
    /\ CfApply(CfCpusOp(machine, CfState), "create_fdt:cpus", "cf_cpu")

CreateFdtCpu ==
    /\ pc = "cf_cpu"
    /\ cf.cpu < machine.smp_cpus
    /\ CfApply(CfCpuOp(machine, CfState), "create_fdt:cpu", "cf_cpu")

CreateFdtClint ==
    /\ pc = "cf_cpu"
    /\ ~(cf.cpu < machine.smp_cpus)
    /\ CfApply(CfClintOp(machine, CfState), "create_fdt:clint", "cf_plic")

CreateFdtPlic ==
    /\ pc = "cf_plic"
    /\ CfApply(CfPlicOp(machine, CfState), "create_fdt:plic", "cf_serial")

CreateFdtSerial ==
    /\ pc = "cf_serial"
    /\ cf.i < K230_UART_IRQS
    /\ CfApply(CfSerialOp(machine, CfState), "create_fdt:serial", "cf_serial")

CreateFdtChosen ==
    /\ pc = "cf_serial"
    /\ ~(cf.i < K230_UART_IRQS)
    /\ CfApply(CfChosenOp(machine, CfState), "create_fdt:chosen", "firmware")

(* ------------------------------------------------------------------ *)
(* The boot helpers of the platform (hw/riscv/boot.c)                   *)
(* ------------------------------------------------------------------ *)

\* riscv_find_and_load_firmware(machine, name, &start_addr, NULL): the image,
\* when there is one, is loaded at *start_addr; returns its end address
riscv_find_and_load_firmware(present, size, start_addr) ==
    [ placed |-> IF present THEN << Place("place:firmware", start_addr, size) >>
                            ELSE << >>,
      firmware_end_addr |-> IF present THEN Add64(start_addr, size) ELSE start_addr ]

\* riscv_calc_kernel_start_addr(info, firmware_end_addr): the next 2 MiB
\* boundary strictly above the firmware end address
riscv_calc_kernel_start_addr(firmware_end_addr) ==
    Add64(<< firmware_end_addr[1], firmware_end_addr[2],
             firmware_end_addr[3] - (firmware_end_addr[3] % 32), 0 >>,
          <<0, 0, 32, 0>>)

\* riscv_load_kernel(machine, info, kernel_start_addr, true, NULL): loads the
\* image at kernel_start_addr and records the entry it discovers
riscv_load_kernel(kernel_start_addr, entry_off) ==
    [ placed |-> << Place("place:kernel", kernel_start_addr, KernelSize) >>,
      image_low_addr |-> Add64(kernel_start_addr, entry_off) ]

\* riscv_compute_fdt_addr(dram_base, dram_size, ms, info): a function of the
\* DDR base, the RAM size and the boot info, left uninterpreted
riscv_compute_fdt_addr(dram_base, dram_size, image_low_addr) ==
    [ fn |-> "riscv_compute_fdt_addr", dram_base |-> dram_base,
      dram_size |-> dram_size, image_low_addr |-> image_low_addr ]

\* riscv_rom_copy_firmware_info(machine, harts, rom_base, rom_size,
\* reset_vec_size, kernel_entry): the dynamic firmware info, whose next
\* address is kernel_entry, is placed in the ROM after the reset vector
riscv_rom_copy_firmware_info(rom_base, reset_vec_size, kernel_entry) ==
    Place("place:fw_dynamic_info", Add64(rom_base, Val64(reset_vec_size)),
          [next_addr |-> kernel_entry])

(* ------------------------------------------------------------------ *)
(* k230_machine_init: firmware, kernel, document, reset vector          *)
(* ------------------------------------------------------------------ *)

\* firmware_end_addr = riscv_find_and_load_firmware(.., &start_addr, NULL)
LoadFirmware ==
    /\ pc = "firmware"
    /\ LET r == riscv_find_and_load_firmware(env.firmware, env.firmware_size,
                                             boot.start_addr)
       IN  /\ boot' = [boot EXCEPT !.firmware_end_addr = r.firmware_end_addr]
           /\ trace' = trace \o r.placed
    /\ pc' = "kernel"
    /\ UNCHANGED << machine, env, mem_size, socVars, regions, fdt, cf, rom, harts >>

\* the start address handed over instead of the firmware end address
KernelStartArg_StartAddr(b) == b.start_addr

\* kernel_entry taken from kernel_start_addr instead of the boot info
KernelEntryOf_StartAddr(image_low_addr, kernel_start_addr) == kernel_start_addr

\* the firmware end address handed to riscv_calc_kernel_start_addr
KernelStartArg(b) == b.firmware_end_addr

\* the value k230_machine_init takes as kernel_entry after riscv_load_kernel
KernelEntryOf(image_low_addr, kernel_start_addr) == image_low_addr

\* if (machine->kernel_filename) { .. kernel_entry = boot_info.image_low_addr; }
LoadKernel ==
    /\ pc = "kernel"
    /\ machine.kernel_filename
    /\ LET kernel_start_addr == riscv_calc_kernel_start_addr(KernelStartArg(boot))
           r == riscv_load_kernel(kernel_start_addr, env.kernel_entry_off)
       IN  /\ boot' = [boot EXCEPT
                 !.kernel_start_addr = kernel_start_addr,
                 !.image_low_addr = r.image_low_addr,
                 !.kernel_entry = KernelEntryOf(r.image_low_addr, kernel_start_addr)]
           /\ trace' = trace \o r.placed
    /\ pc' = "fdt_place"
    /\ UNCHANGED << machine, env, mem_size, socVars, regions, fdt, cf, rom, harts >>

\* else { kernel_entry = 0; }
NoKernel ==
    /\ pc = "kernel"
    /\ ~machine.kernel_filename
    /\ boot' = [boot EXCEPT !.kernel_entry = Zero64]
    /\ pc' = "fdt_place"
    /\ UNCHANGED << machine, env, mem_size, socVars, regions, fdt, cf, trace,
                    rom, harts >>

\* fdt_load_addr = riscv_compute_fdt_addr(DDR base, mem_size, machine, &boot_info);
\* riscv_load_fdt(fdt_load_addr, machine->fdt)
LoadFdt ==
    /\ pc = "fdt_place"
    /\ LET fdt_load_addr ==
              riscv_compute_fdt_addr(k230_memmap.K230_DEV_DDRC.base,
                                     ZExt32(mem_size), boot.image_low_addr)
       IN  /\ boot' = [boot EXCEPT !.fdt_load_addr = fdt_load_addr]
           /\ trace' = Append(trace, Place("place:fdt", fdt_load_addr, fdt))
    /\ pc' = "reset_vec"
    /\ UNCHANGED << machine, env, mem_size, socVars, regions, fdt, cf, rom, harts >>

(* ------------------------------------------------------------------ *)
(* The reset vector                                                     *)
(* ------------------------------------------------------------------ *)

\* the vector with the branch on the hart id inverted (bnez a0, entry)
reset_vec_bnez ==
    << <<\h0000, \h0297>>, <<\h0242, \h8293>>, <<\h3052, \h9073>>,
       <<\hf140, \h2573>>, <<\h0005, \h1463>>, <<\h0000, \h006f>>,
       <<\h0010, \h029b>>, <<\h01b2, \h9293>>, <<\h0002, \h8067>>,
       <<\h0000, \h006f>> >>

\* uint32_t reset_vec[]: the instruction words, each as <<high half, low half>>
reset_vec ==
    << <<\h0000, \h0297>>,    \* auipc  t0, 0x0
       <<\h0242, \h8293>>,    \* addi   t0, t0, 36
       <<\h3052, \h9073>>,    \* csrw   mtvec, t0
       <<\hf140, \h2573>>,    \* csrr   a0, mhartid
       <<\h0005, \h0463>>,    \* beqz   a0, entry
       <<\h0000, \h006f>>,    \* loop:  j loop
       <<\h0010, \h029b>>,    \* entry: addiw t0, zero, 1
       <<\h01b2, \h9293>>,    \* slli   t0, t0, 0x1b
       <<\h0002, \h8067>>,    \* jr     t0
       <<\h0000, \h006f>> >>  \* trap:  j trap

\* the four bytes of a 32-bit value, least significant first
BytesLe(w) == << w[2] % 256, w[2] \div 256, w[1] % 256, w[1] \div 256 >>

bswap32(w) ==
    LET b == BytesLe(w) IN << b[1] * 256 + b[2], b[3] * 256 + b[4] >>

\* cpu_to_le32 on a host of the given byte order
cpu_to_le32(w, host_big_endian) == IF host_big_endian THEN bswap32(w) ELSE w

\* the bytes a uint32_t occupies in host memory, lowest address first
HostBytes(w, host_big_endian) ==
    LET b == BytesLe(w)
    IN  IF host_big_endian THEN << b[4], b[3], b[2], b[1] >> ELSE b

RECURSIVE Flatten(_)
Flatten(ss) == IF ss = << >> THEN << >> ELSE Head(ss) \o Flatten(Tail(ss))

\* for (i ..) reset_vec[i] = cpu_to_le32(reset_vec[i]); the array as the blob
\* rom_add_blob_fixed_as copies out of host memory
ResetVecBlob(host_big_endian) ==
    Flatten([ k \in DOMAIN reset_vec |->
                HostBytes(cpu_to_le32(reset_vec[k], host_big_endian),
                          host_big_endian) ])

\* the blob placed at the start address of the firmware instead
ResetVecAddr_StartAddr == boot.start_addr

\* the address rom_add_blob_fixed_as is given: memmap[K230_DEV_BOOTROM].base
ResetVecAddr == k230_memmap.K230_DEV_BOOTROM.base

\* rom_add_blob_fixed_as("bootrom", reset_vec, sizeof(reset_vec), BOOTROM base, ..)
PlaceResetVec ==
    /\ pc = "reset_vec"
    /\ rom' = ResetVecBlob(env.host_big_endian)
    /\ trace' = Append(trace, Place("place:reset_vec", ResetVecAddr, rom'))
    /\ pc' = "fw_info"
    /\ UNCHANGED << machine, env, mem_size, socVars, regions, fdt, cf, boot, harts >>

\* the architectural state of a hart leaving reset
ResetHart(a) ==
    [ pc |-> a.resetvec, mhartid |-> a.hartid_base, mtvec |-> Zero64,
      x |-> [r \in 0 .. 31 |-> Zero64], via |-> "reset" ]

\* riscv_rom_copy_firmware_info(..); k230_machine_init returns and the
\* realized harts are released from reset
RomCopyFirmwareInfo ==
    /\ pc = "fw_info"
    /\ trace' = Append(trace,
          riscv_rom_copy_firmware_info(k230_memmap.K230_DEV_BOOTROM.base,
                                       Len(rom), boot.kernel_entry))
    /\ harts' = [ n \in { a.name : a \in { b \in hart_arrays : b.realized } } |->
                    ResetHart(CHOOSE a \in hart_arrays : a.name = n) ]
    /\ pc' = "done"
    /\ UNCHANGED << machine, env, mem_size, socVars, regions, fdt, cf, boot, rom >>

(* ------------------------------------------------------------------ *)
(* Execution of the reset vector by a hart (RV64, the instructions the  *)
(* vector is made of; anything else traps to mtvec)                     *)
(* ------------------------------------------------------------------ *)

\* offset of address a in the ROM blob, -1 when outside it
RomOffset(a) ==
    LET base == k230_memmap.K230_DEV_BOOTROM.base
    IN  IF a[1] = base[1] /\ a[2] = base[2] /\ a[3] = base[3]
           /\ a[4] >= base[4] /\ (a[4] - base[4]) + 3 < Len(rom)
        THEN a[4] - base[4] ELSE -1

\* instruction fetch: four bytes, little-endian
Fetch(a) ==
    LET o == RomOffset(a)
    IN  << rom[o + 4] * 256 + rom[o + 3], rom[o + 2] * 256 + rom[o + 1] >>

Opcode(w) == w[2] % 128
Rd(w) == (w[2] \div 128) % 32
Funct3(w) == (w[2] \div 4096) % 8
Rs1(w) == (w[2] \div 32768) + 2 * (w[1] % 16)
ImmI(w) == w[1] \div 16
Rs2(w) == ImmI(w) % 32

\* B-type immediate: imm[12|10:5] in bits 31..25, imm[4:1|11] in bits 11..7
ImmB(w) ==
    (w[1] \div 32768) * 4096 + ((w[2] \div 128) % 2) * 2048
    + ((w[1] \div 512) % 64) * 32 + ((w[2] \div 256) % 16) * 2

\* J-type immediate: imm[20|10:1|11|19:12] in bits 31..12
ImmJ(w) ==
    (w[1] \div 32768) * 1048576 + ((w[1] % 16) * 16 + (w[2] \div 4096)) * 4096
    + ((w[1] \div 16) % 2) * 2048 + ((w[1] \div 32) % 1024) * 2

\* U-type immediate, sign-extended: the word with its low 12 bits cleared
ImmU(w) == SExt32(<< w[1], w[2] - (w[2] % 4096) >>)

Four64 == <<0, 0, 0, 4>>

WriteReg(x, rd, v) == IF rd = 0 THEN x ELSE [x EXCEPT ![rd] = v]

Next4(h, rd, v, via) ==
    [h EXCEPT !.pc = Add64(h.pc, Four64), !.x = WriteReg(h.x, rd, v), !.via = via]

Trap(h) == [h EXCEPT !.pc = h.mtvec, !.via = "trap"]

\* the CSRs of the vector: mtvec (0x305) and the read-only mhartid (0xf14)
CsrRead(h, csr) == IF csr = \h305 THEN h.mtvec ELSE Val64(h.mhartid)

Execute(h, w) ==
    LET op == Opcode(w)
        f3 == Funct3(w)
        rs1 == h.x[Rs1(w)]
        rs2 == h.x[Rs2(w)]
    IN  CASE op = \h17 ->                                     \* auipc
               Next4(h, Rd(w), Add64(h.pc, ImmU(w)), "seq")
          [] op = \h13 /\ f3 = 0 ->                           \* addi
               Next4(h, Rd(w), Add64(rs1, SExtImm(ImmI(w), 12)), "seq")
          [] op = \h13 /\ f3 = 1 /\ ImmI(w) < 64 ->           \* slli
               Next4(h, Rd(w), Shl64(rs1, ImmI(w)), "seq")
          [] op = \h1b /\ f3 = 0 ->                           \* addiw
               Next4(h, Rd(w), SExt32(Lo32(Add64(rs1, SExtImm(ImmI(w), 12)))), "seq")
          [] op = \h73 /\ f3 = 1 /\ ImmI(w) = \h305 ->        \* csrrw mtvec
               [Next4(h, Rd(w), CsrRead(h, \h305), "seq") EXCEPT !.mtvec = rs1]
          [] op = \h73 /\ f3 = 2 /\ ImmI(w) \in {\h305, \hf14} /\ Rs1(w) = 0 ->
               Next4(h, Rd(w), CsrRead(h, ImmI(w)), "seq")    \* csrr
          [] op = \h63 /\ f3 \in {0, 1} ->                    \* beq, bne
               IF (rs1 = rs2) = (f3 = 0)
               THEN [h EXCEPT !.pc = Add64(h.pc, SExtImm(ImmB(w), 13)),
                              !.via = "branch"]
               ELSE Next4(h, 0, Zero64, "seq")
          [] op = \h6f ->                                     \* jal
               [h EXCEPT !.pc = Add64(h.pc, SExtImm(ImmJ(w), 21)),
                         !.x = WriteReg(h.x, Rd(w), Add64(h.pc, Four64)),
                         !.via = "jal"]
          [] op = \h67 /\ f3 = 0 ->                           \* jalr
               LET t == Add64(rs1, SExtImm(ImmI(w), 12))
               IN  [h EXCEPT !.pc = << t[1], t[2], t[3], t[4] - (t[4] % 2) >>,
                             !.x = WriteReg(h.x, Rd(w), Add64(h.pc, Four64)),
                             !.via = "jalr"]
          [] OTHER -> Trap(h)

\* one instruction of hart n; outside the ROM blob the hart runs the
\* firmware, which is not part of the board code
CpuStep(n) ==
    /\ pc = "done"
    /\ n \in DOMAIN harts
    /\ RomOffset(harts[n].pc) >= 0
    /\ \E w \in { Fetch(harts[n].pc) } :
          harts' = [harts EXCEPT ![n] = Execute(harts[n], w)]
    /\ UNCHANGED << machine, env, pc, mem_size, socVars, regions, fdt, cf, boot,
                    trace, rom >>

HartNames == { "c908-cpus", "c908v-cpus" }

Next ==
    \/ MachineInitBegin
    \/ SocInstanceInit
    \/ SocRealize
    \/ RamInit
    \/ LoadDeviceTree
    \/ CreateFdtBegin
    \/ CreateFdtClocks
    \/ CreateFdtMemory
    \/ CreateFdtCpus
    \/ CreateFdtCpu
    \/ CreateFdtClint
    \/ CreateFdtPlic
    \/ CreateFdtSerial
    \/ CreateFdtChosen
    \/ LoadFirmware
    \/ LoadKernel
    \/ NoKernel
    \/ LoadFdt
    \/ PlaceResetVec
    \/ RomCopyFirmwareInfo
    \/ \E n \in HartNames : CpuStep(n)

Spec == Init /\ [][Next]_vars

\* Execution of the reset vector: the runs with the default RAM size and one
\* firmware and kernel image; the simulator schedules every hart, so each
\* hart that can execute an instruction eventually does
StubInit ==
    /\ Init
    /\ machine.ram_size = k230_memmap.K230_DEV_DDRC.size
    /\ ~machine.strict_ram
    /\ env.firmware_size = <<0, 0, \h0002, 0>>
    /\ env.kernel_entry_off = Zero64

FairSpec == StubInit /\ [][Next]_vars /\ \A n \in HartNames : WF_vars(CpuStep(n))

(* ------------------------------------------------------------------ *)
(* Properties                                                           *)
(* ------------------------------------------------------------------ *)

Count(op) == Cardinality({ i \in DOMAIN trace : trace[i].op = op })

Ops == [ i \in DOMAIN trace |-> trace[i].op ]

SynthSteps ==
    { "create_fdt:clocks", "create_fdt:memory", "create_fdt:cpus", "create_fdt:cpu",
      "create_fdt:clint", "create_fdt:plic", "create_fdt:serial", "create_fdt:chosen" }

PlacementOps ==
    { "place:firmware", "place:kernel", "place:fdt", "place:reset_vec",
      "place:fw_dynamic_info" }

\* the stages of k230_machine_init after the device tree stage
AfterDeviceTree == { "firmware", "kernel", "fdt_place", "reset_vec", "fw_info", "done" }

NothingCreated ==
    /\ hart_arrays = {} /\ gpios = {} /\ plic = << >> /\ clint = {}
    /\ regions = {} /\ irqs = {} /\ fdt = << >> /\ rom = << >> /\ harts = << >>
    /\ \A i \in DOMAIN trace : trace[i].op = "error_report:cpus"

\* C1: with more than 2 processors requested, setup never gets past
\* k230_soc_instance_init other than into the fatal error, and at no time does
\* a hart array, GPIO bank, interrupt controller, memory region, device,
\* interrupt line or document exist, whether or not a document was supplied.
C1_FatalBeforeAnyDevice ==
    machine.smp_cpus > 2 =>
        /\ pc \in { "start", "soc_instance_init", "fatal" }
        /\ NothingCreated

C1_Witness ==
    /\ machine.smp_cpus > 2 /\ machine.dtb /\ pc = "fatal"
    /\ Count("error_report:cpus") = 1

\* C2: when hart 0 has executed the final jump of the reset vector, it is at
\* the address at which the firmware image was loaded.
C2_StubJumpsToFirmwareLoadAddr ==
    \A n \in DOMAIN harts : \A i \in DOMAIN trace :
        (harts[n].mhartid = 0 /\ harts[n].via = "jalr"
         /\ trace[i].op = "place:firmware")
        => harts[n].pc = trace[i].addr

\* hart 0 has executed the final jump, with a firmware image loaded at 0
C2_Witness ==
    /\ "c908-cpus" \in DOMAIN harts
    /\ harts["c908-cpus"].mhartid = 0 /\ harts["c908-cpus"].via = "jalr"
    /\ harts["c908-cpus"].pc = <<0, 0, \h0800, 0>>
    /\ \E i \in DOMAIN trace :
          trace[i].op = "place:firmware" /\ trace[i].addr = Zero64

RomBase == <<0, 0, \h9120, 0>>
AtLoop(n) == n \in DOMAIN harts /\ harts[n].pc = <<0, 0, \h9120, \h0014>>
Jumped(n) == n \in DOMAIN harts /\ harts[n].via = "jalr"
Secondary(n) == n \in DOMAIN harts /\ harts[n].mhartid # 0
Primary(n) == n \in DOMAIN harts /\ harts[n].mhartid = 0

\* C3: a hart whose id is not 0 reaches the self-jump at ROM base + 0x14,
\* stays there forever and never executes the instructions from the entry
\* label on; the hart whose id is 0 eventually executes the final jump; in
\* both cases mtvec then holds ROM base + 0x24.
C3_SecondarySpinsPrimaryJumps ==
    \A n \in HartNames :
        /\ Secondary(n) ~> [](AtLoop(n) /\ harts[n].mtvec = <<0, 0, \h9120, \h0024>>)
        /\ [](Secondary(n) =>
                 /\ ~Jumped(n)
                 /\ harts[n].pc \notin { <<0, 0, \h9120, \h0018>>,
                                         <<0, 0, \h9120, \h001c>>,
                                         <<0, 0, \h9120, \h0020>> })
        /\ Primary(n) ~> (Jumped(n) /\ harts[n].mtvec = <<0, 0, \h9120, \h0024>>)
        /\ []((Primary(n) /\ harts[n].via = "reset") => harts[n].pc = RomBase)

C3_Witness ==
    /\ AtLoop("c908v-cpus") /\ harts["c908v-cpus"].via = "jal"
    /\ harts["c908v-cpus"].mhartid = 1
    /\ Jumped("c908-cpus") /\ harts["c908-cpus"].mhartid = 0

\* C4: load_device_tree and create_fdt are never both invoked and, once the
\* device tree stage is over, exactly one of them has been invoked; with a
\* document supplied no synthesis step ever runs; with none supplied the
\* document is synthesized exactly once (each group of nodes once, one cpu
\* node group per processor, one serial node per UART).
C4_LoadXorBuild ==
    /\ Count("load_device_tree") + Count("create_fdt") <= 1
    /\ pc \in AfterDeviceTree => Count("load_device_tree") + Count("create_fdt") = 1
    /\ machine.dtb =>
          /\ Count("create_fdt") = 0
          /\ \A i \in DOMAIN trace : trace[i].op \notin SynthSteps
          /\ cf = cfInit
    /\ (~machine.dtb /\ pc \in AfterDeviceTree) =>
          /\ Count("create_fdt") = 1 /\ Count("load_device_tree") = 0
          /\ \A st \in SynthSteps \ { "create_fdt:cpu", "create_fdt:serial" } :
                Count(st) = 1
          /\ Count("create_fdt:cpu") = machine.smp_cpus
          /\ Count("create_fdt:serial") = 5

C4_Witness ==
    /\ machine.dtb /\ pc = "done" /\ Count("load_device_tree") = 1
    /\ fdt = UserDoc(env.dtb_doc)

\* C5: when the supplied document cannot be loaded, setup ends in the fatal
\* error at the device tree stage: create_fdt is not invoked, no document
\* exists, and nothing (firmware, kernel, document, reset vector) is placed.
C5_LoadFailureIsFatal ==
    (machine.dtb /\ ~env.dtb_loadable) =>
        /\ pc \in { "start", "soc_instance_init", "soc_realize", "ram",
                    "device_tree", "fatal" }
        /\ fdt = << >> /\ rom = << >> /\ cf = cfInit
        /\ \A i \in DOMAIN trace :
              trace[i].op \notin PlacementOps \cup SynthSteps \cup { "create_fdt" }

C5_Witness ==
    /\ machine.dtb /\ ~env.dtb_loadable /\ pc = "fatal"
    /\ Count("load_device_tree") = 1 /\ Count("error_report:dtb") = 1

\* C6: in a completed setup the placements are, in this order, the firmware
\* image (if there is one), the kernel image (if one was supplied), the
\* document, the reset vector (followed by the firmware info); the reset
\* vector is placed at 0x91200000, the BOOTROM base, in every case.
C6_PlacementOrder ==
    /\ pc = "done" =>
          SelectSeq(Ops, LAMBDA o : o \in PlacementOps) =
             (IF env.firmware THEN << "place:firmware" >> ELSE << >>)
             \o (IF machine.kernel_filename THEN << "place:kernel" >> ELSE << >>)
             \o << "place:fdt", "place:reset_vec", "place:fw_dynamic_info" >>
    /\ \A i \in DOMAIN trace :
          trace[i].op = "place:reset_vec" => trace[i].addr = <<0, 0, \h9120, 0>>

C6_Witness ==
    /\ pc = "done" /\ env.firmware /\ machine.kernel_filename /\ machine.dtb
    /\ Count("place:reset_vec") = 1

ChosenOf(doc) == { k \in DOMAIN doc : doc[k].name.kind = "/chosen" }

\* a 64-bit value as two cells, high word first
TwoCells(v) == << Lo32(Shr32(v)), Lo32(v) >>

FirmwareEnd == IF env.firmware THEN Add64(Zero64, env.firmware_size) ELSE Zero64

\* C8: once the kernel stage is over, kernel_entry is 0 exactly when no kernel
\* was supplied; with a kernel it is the entry the image loader recorded for
\* the image it loaded, and the image was loaded once, at the start address
\* computed from the firmware end address; the firmware info handed to the
\* next boot stage carries kernel_entry.
C8_KernelEntry ==
    /\ pc \in { "fdt_place", "reset_vec", "fw_info", "done" } =>
          /\ (boot.kernel_entry = Zero64) <=> ~machine.kernel_filename
          /\ Count("place:kernel") = (IF machine.kernel_filename THEN 1 ELSE 0)
    /\ \A i \in DOMAIN trace :
          /\ trace[i].op = "place:kernel" =>
                /\ trace[i].addr = riscv_calc_kernel_start_addr(FirmwareEnd)
                /\ boot.kernel_entry = Add64(trace[i].addr, env.kernel_entry_off)
          /\ trace[i].op = "place:fw_dynamic_info" =>
                trace[i].data.next_addr = boot.kernel_entry

C8_Witness ==
    /\ pc = "done" /\ machine.kernel_filename /\ env.firmware
    /\ env.kernel_entry_off # Zero64 /\ boot.kernel_entry # boot.kernel_start_addr

\* C9: when a firmware image and a kernel image are both loaded, the kernel
\* load address is strictly above the end (load address + size) of the
\* firmware image.
C9_KernelAboveFirmware ==
    \A i, j \in DOMAIN trace :
        (trace[i].op = "place:firmware" /\ trace[j].op = "place:kernel")
        => Lt64(Add64(trace[i].addr, trace[i].data), trace[j].addr)

C9_Witness ==
    /\ Count("place:firmware") = 1 /\ Count("place:kernel") = 1
    /\ env.firmware_size = <<0, 0, \h0020, 0>>

\* the processor whose nested interrupt controller has handle ph, -1 if none
ProcOfPhandle(doc, ph) ==
    LET ps == { k \in DOMAIN doc :
                  /\ doc[k].name.kind = "/cpus/cpu/interrupt-controller"
                  /\ "phandle" \in DOMAIN doc[k].props
                  /\ doc[k].props["phandle"].cells = << ph >> }
    IN  IF ps = {} THEN -1 ELSE doc[CHOOSE k \in ps : TRUE].name.unit[4]

\* the <handle, interrupt> pairs of a node's interrupts-extended, as
\* <<processor, interrupt kind>> edges in the order listed
EdgesOf(doc, kind) ==
    LET cs == doc[CHOOSE k \in DOMAIN doc : doc[k].name.kind = kind]
                 .props["interrupts-extended"].cells
    IN  [ e \in 1 .. (Len(cs) \div 2) |->
            << ProcOfPhandle(doc, cs[2 * e - 1]), cs[2 * e][2] >> ]

NoDuplicates(q) == \A a, b \in DOMAIN q : q[a] = q[b] => a = b

\* C10: for n = 1 or 2 processors, the CLINT node of the synthesized document
\* lists exactly one software (3) and one timer (7) edge per processor 0..n-1,
\* the PLIC node exactly one external (11) edge per processor, no
\* (processor, kind) pair is listed twice; and k230_soc_realize connects PLIC
\* output i to the external-interrupt input of processor i for exactly the
\* i in 0..n-1, each processor's input being driven by one output.
C10_InterruptFabric ==
    LET n == machine.smp_cpus
        outs == { e \in irqs : e.src = "plic" }
        array(i) == CHOOSE a \in hart_arrays : a.hartid_base = i
    IN  /\ (pc \in AfterDeviceTree /\ ~machine.dtb) =>
              LET clintE == EdgesOf(fdt, "/soc/clint")
                  plicE == EdgesOf(fdt, "/soc/interrupt-controller")
              IN  /\ n \in {1, 2}
                  /\ Len(clintE) = 2 * n /\ Len(plicE) = n
                  /\ \A c \in 0 .. n - 1 :
                        /\ Cardinality({ e \in DOMAIN clintE : clintE[e] = <<c, 3>> }) = 1
                        /\ Cardinality({ e \in DOMAIN clintE : clintE[e] = <<c, 7>> }) = 1
                        /\ Cardinality({ e \in DOMAIN plicE : plicE[e] = <<c, 11>> }) = 1
                  /\ NoDuplicates(clintE \o plicE)
        /\ (plic # << >>) =>
              /\ n \in {1, 2}
              /\ { e.line : e \in outs } = 0 .. n - 1
              /\ Cardinality(outs) = n
              /\ \A e \in outs :
                    /\ e.input = 11
                    /\ e.dst = array(e.line).name
                    /\ array(e.line).realized

C10_Witness ==
    /\ pc = "done" /\ ~machine.dtb /\ machine.smp_cpus = 2
    /\ Len(EdgesOf(fdt, "/soc/clint")) = 4
    /\ Cardinality({ e \in irqs : e.src = "plic" }) = 2

\* the interrupt lines of the peripherals, each connected to a controller input
PeripheralLines == { e \in irqs : e.dst = "plic" }

\* C11: once the SoC is realized, UART i (i in 0..4) is connected to source
\* K230_UART0_IRQ + i, line j (j in 0..63) of GPIO bank 0 to source
\* K230_GPIO0_IRQ0 + j and line j of bank 1 to source K230_GPIO0_IRQ0 + 64 + j,
\* these are all the peripheral lines, no source is claimed by two lines, and
\* every claimed source is below the source count the controller was created
\* with.
C11_SourceAllocation ==
    plic # << >> =>
        /\ PeripheralLines =
              { [src |-> "uart", unit |-> i, line |-> 0, dst |-> "plic",
                 input |-> K230_UART0_IRQ + i] : i \in 0 .. 4 }
              \cup { [src |-> "gpio", unit |-> b, line |-> j, dst |-> "plic",
                      input |-> K230_GPIO0_IRQ0 + 64 * b + j] :
                     b \in 0 .. 1, j \in 0 .. 63 }
        /\ Cardinality({ e.input : e \in PeripheralLines }) = Cardinality(PeripheralLines)
        /\ \A e \in PeripheralLines : e.input >= 0 /\ e.input < plic[1].num_sources

C11_Witness ==
    /\ pc = "done" /\ plic # << >>
    /\ Cardinality(PeripheralLines) = 133
    /\ \E e \in PeripheralLines : e.src = "gpio" /\ e.unit = 1 /\ e.input = 143

\* the nodes of a document that carry a handle, in emission order
HandleNodes(doc) ==
    SelectSeq([ k \in DOMAIN doc |-> doc[k] ], LAMBDA nd : "phandle" \in DOMAIN nd.props)

\* the handle of a node that carries one, as an integer
HandleOf(nd) == nd.props["phandle"].cells[1][1] * LIMB + nd.props["phandle"].cells[1][2]

\* the nodes that are to carry a handle, in the order stated
HandleOrder(n) ==
    << NodeName("/def_50mhz", Zero64), NodeName("/rtcclk", Zero64) >>
    \o [ c \in 1 .. n |-> IntcNodeName(c - 1) ]
    \o << PlicNodeName >>

\* C12: in a document being synthesized the nodes carrying a handle are, in
\* emission order, a prefix of: the two fixed clocks, the interrupt
\* controllers of processors 0..n-1, the shared interrupt controller; in the
\* finished document they are exactly these; each carries one handle cell, the
\* handles are positive and strictly increase in this order (so are pairwise
\* distinct).
C12_HandleOrder ==
    ~machine.dtb =>
        LET hs == HandleNodes(fdt)
            want == HandleOrder(machine.smp_cpus)
        IN  /\ Len(hs) <= Len(want)
            /\ \A i \in DOMAIN hs :
                  /\ hs[i].name = want[i]
                  /\ Len(hs[i].props["phandle"].cells) = 1
                  /\ HandleOf(hs[i]) > 0
                  /\ \A j \in DOMAIN hs : i < j => HandleOf(hs[i]) < HandleOf(hs[j])
            /\ pc \in AfterDeviceTree =>
                  /\ machine.smp_cpus \in {1, 2}
                  /\ Len(hs) = Len(want)

C12_Witness ==
    /\ ~machine.dtb /\ pc = "done" /\ machine.smp_cpus = 2
    /\ Len(HandleNodes(fdt)) = 5
    /\ HandleOf(NodeOf(fdt, PlicNodeName)) = 5

\* the handle cells a node writes into its referencing properties
HandleRefs(nd) ==
    (IF "interrupts-extended" \in DOMAIN nd.props
     THEN { nd.props["interrupts-extended"].cells[2 * e - 1] :
            e \in 1 .. (Len(nd.props["interrupts-extended"].cells) \div 2) }
     ELSE {})
    \cup (IF "clocks" \in DOMAIN nd.props
          THEN { nd.props["clocks"].cells[1] } ELSE {})
    \cup (IF "interrupt-parent" \in DOMAIN nd.props
          THEN { nd.props["interrupt-parent"].cells[1] } ELSE {})

\* C13: at every step of the synthesis, each handle a node of the document
\* refers to (in interrupts-extended, clocks or interrupt-parent) is the
\* handle of a node emitted before it; no reference is to a handle that is
\* assigned later or never.
C13_ReferencesResolved ==
    ~machine.dtb =>
        \A k \in DOMAIN fdt : \A h \in HandleRefs(fdt[k]) :
            \E j \in 1 .. k - 1 :
                /\ "phandle" \in DOMAIN fdt[j].props
                /\ fdt[j].props["phandle"].cells = << h >>

C13_Witness ==
    /\ ~machine.dtb /\ pc = "done" /\ machine.smp_cpus = 2
    /\ HandleRefs(NodeOf(fdt, ClintNodeName)) = { Cell(3), Cell(4) }
    /\ HandleRefs(NodeOf(fdt, SerialNodeName(4))) = { Cell(1), Cell(5) }

\* the window of a catalog entry holds the region [base, base + size)
Within(base, size, e) ==
    /\ Le64(e.base, base)
    /\ Le64(Add64(base, size), Add64(e.base, e.size))

FdtAddrFor(m, e) ==
    riscv_compute_fdt_addr(
        k230_memmap.K230_DEV_DDRC.base, ZExt32(Lo32(m.ram_size)),
        IF m.kernel_filename
        THEN Add64(riscv_calc_kernel_start_addr(
                      IF e.firmware THEN Add64(Zero64, e.firmware_size) ELSE Zero64),
                   e.kernel_entry_off)
        ELSE Zero64)

\* C15: a run without a supplied document places the document create_fdt
\* produces for its configuration at the load address its configuration
\* determines; a run with the same configuration that is supplied that
\* document as a file runs no synthesis step and places the same document at
\* the same address.
C15_RoundTrip ==
    \A i \in DOMAIN trace :
        trace[i].op = "place:fdt" =>
            /\ ~machine.dtb =>
                  /\ trace[i].data = create_fdt(machine)
                  /\ trace[i].addr = FdtAddrFor(machine, env)
            /\ (machine.dtb /\ env.dtb_doc = 0) =>
                  /\ trace[i].data = create_fdt(machine)
                  /\ trace[i].addr = FdtAddrFor(machine, env)
                  /\ Count("create_fdt") = 0 /\ cf = cfInit
                  /\ \A j \in DOMAIN trace : trace[j].op \notin SynthSteps

C15_Witness ==
    /\ pc = "done" /\ machine.dtb /\ env.dtb_doc = 0 /\ machine.smp_cpus = 2
    /\ machine.kernel_filename /\ Count("load_device_tree") = 1
    /\ \E i \in DOMAIN trace :
          trace[i].op = "place:fdt" /\ Len(trace[i].data) = 19

\* the tags k230_soc_realize, create_fdt and k230_machine_init index the
\* catalog with
IndexedTags ==
    { "K230_DEV_DDRC", "K230_DEV_SRAM", "K230_DEV_BOOTROM", "K230_DEV_PLIC",
      "K230_DEV_CLINT", "K230_DEV_GPIO0", "K230_DEV_GPIO1" }
    \cup { UartTag(i) : i \in 0 .. K230_UART_IRQS - 1 }
    \cup { I2cTag(i) : i \in 0 .. K230_I2C_IRQS - 1 }
    \cup { d[2] : d \in UnimpDevices }

\* the windows of two catalog entries have no address in common
Disjoint(a, b) ==
    \/ Le64(Add64(a.base, a.size), b.base)
    \/ Le64(Add64(b.base, b.size), a.base)

HiLo(v) == << <<v[1], v[2]>>, <<v[3], v[4]>> >>

RegOf(doc, name) == NodeOf(doc, name).props["reg"].cells

\* C17: in the synthesized document the reg of the memory node is the DDR
\* base followed by the configured RAM size, each as two cells with the high
\* word first; the reg of the CLINT and of the PLIC is the catalog base and
\* size of its entry, and the reg of each serial node begins with the catalog
\* base of its UART, encoded the same way.
C17_RegEncoding ==
    (~machine.dtb /\ pc \in AfterDeviceTree) =>
        /\ RegOf(fdt, MemoryNodeName) =
              HiLo(k230_memmap.K230_DEV_DDRC.base) \o HiLo(machine.ram_size)
        /\ RegOf(fdt, ClintNodeName) =
              HiLo(k230_memmap.K230_DEV_CLINT.base) \o HiLo(k230_memmap.K230_DEV_CLINT.size)
        /\ RegOf(fdt, PlicNodeName) =
              HiLo(k230_memmap.K230_DEV_PLIC.base) \o HiLo(k230_memmap.K230_DEV_PLIC.size)
        /\ \A i \in 0 .. 4 :
              /\ Len(RegOf(fdt, SerialNodeName(i))) = 4
              /\ SubSeq(RegOf(fdt, SerialNodeName(i)), 1, 2) =
                    HiLo(k230_memmap[UartTag(i)].base)

C17_Witness ==
    /\ ~machine.dtb /\ pc = "done"
    /\ machine.ram_size = <<0, 1, \h8000, 0>>
    /\ RegOf(fdt, MemoryNodeName) = << <<0, 0>>, <<0, 0>>, <<0, 1>>, <<\h8000, 0>> >>

\* the size the memory node of a document advertises: the last two cells of
\* its reg, high word first
AdvertisedRamSize(doc) ==
    LET reg == RegOf(doc, MemoryNodeName)
    IN  << reg[3][1], reg[3][2], reg[4][1], reg[4][2] >>

\* C18: in a run that synthesizes its document, the size of the RAM region
\* and the RAM size the document load address is computed from both equal
\* the size the memory node advertises.
C18_OneRamSize ==
    (~machine.dtb /\ pc \in AfterDeviceTree) =>
        /\ \A r \in regions :
              r.name = "k230.dram" => r.size = AdvertisedRamSize(fdt)
        /\ \A i \in DOMAIN trace :
              trace[i].op = "place:fdt" =>
                 trace[i].addr.dram_size = AdvertisedRamSize(fdt)

\* a 6 GiB configuration: the region and the load address use 2 GiB, the
\* memory node advertises 6 GiB
C18_Witness ==
    /\ ~machine.dtb /\ pc = "done"
    /\ machine.ram_size = <<0, 1, \h8000, 0>>
    /\ AdvertisedRamSize(fdt) = <<0, 1, \h8000, 0>>
    /\ \E r \in regions : r.name = "k230.dram" /\ r.size = <<0, 0, \h8000, 0>>
    /\ boot.fdt_load_addr.dram_size = <<0, 0, \h8000, 0>>

\* the number a one-cell property of a node holds
CellOf(doc, name, prop) ==
    LET c == NodeOf(doc, name).props[prop].cells[1]
    IN  c[1] * LIMB + c[2]

\* the harts of the hart arrays that were realized
RealizedHarts ==
    UNION { { <<a.name, h>> : h \in 0 .. a.num_harts - 1 } :
            a \in { x \in hart_arrays : x.realized } }

\* C19: in a run that synthesizes its document, the document has as many cpu
\* nodes as harts were realized, the interrupt number of the serial node of
\* UART i is the controller input UART i is connected to, and riscv,ndev + 1
\* is the source count the controller was created with.
C19_DocumentMatchesWiring ==
    (~machine.dtb /\ pc \in AfterDeviceTree) =>
        /\ Cardinality({ k \in DOMAIN fdt : fdt[k].name.kind = "/cpus/cpu" }) =
              Cardinality(RealizedHarts)
        /\ Cardinality(RealizedHarts) = machine.smp_cpus
        /\ \A i \in 0 .. 4 :
              \E e \in irqs :
                 /\ e.src = "uart" /\ e.unit = i /\ e.dst = "plic"
                 /\ e.input = CellOf(fdt, SerialNodeName(i), "interrupts")
                 /\ \A e2 \in irqs : (e2.src = "uart" /\ e2.unit = i) => e2 = e
        /\ CellOf(fdt, PlicNodeName, "riscv,ndev") + 1 = plic[1].num_sources

C19_Witness ==
    /\ ~machine.dtb /\ pc = "done" /\ machine.smp_cpus = 2
    /\ Cardinality(RealizedHarts) = 2
    /\ CellOf(fdt, SerialNodeName(4), "interrupts") = 4
    /\ CellOf(fdt, PlicNodeName, "riscv,ndev") = 207

\* C20: in a run that synthesizes its document, the interrupt number of every
\* serial node lies in 1 .. riscv,ndev, and no UART is connected to controller
\* input 0.
C20_SerialSourcesValid ==
    (~machine.dtb /\ pc \in AfterDeviceTree) =>
        /\ \A i \in 0 .. 4 :
              /\ CellOf(fdt, SerialNodeName(i), "interrupts") >= 1
              /\ CellOf(fdt, SerialNodeName(i), "interrupts") <=
                    CellOf(fdt, PlicNodeName, "riscv,ndev")
        /\ \A e \in irqs : (e.src = "uart" /\ e.dst = "plic") => e.input # 0

\* the first UART advertises and is wired to source 0
C20_Witness ==
    /\ ~machine.dtb /\ pc = "done"
    /\ CellOf(fdt, SerialNodeName(0), "interrupts") = 0
    /\ CellOf(fdt, PlicNodeName, "riscv,ndev") = 207
    /\ \E e \in irqs : e.src = "uart" /\ e.unit = 0 /\ e.dst = "plic" /\ e.input = 0

====
